---- MODULE Spec2Model ----
(***************************************************************************)
(* A model of the Lamport logical clock server of main.go: the clock      *)
(* (LamportClock: Tick, Update, GetTime under lc.mutex) and the event log  *)
(* (Server: logEvent, processMessage under s.mutex), driven by concurrent  *)
(* goroutines.  Every lock acquisition, every assignment to shared state   *)
(* and every release is one step of the goroutine that runs it.            *)
(*                                                                         *)
(* int64 is modelled at a reduced width of IntBits bits with Go's          *)
(* wrap-around on signed overflow; MaxInt64 and MinInt64 are the largest   *)
(* and smallest values of that width.  Event.WallTime (time.Now()) is      *)
(* informational only, is never read by the program, and is left out.      *)
(***************************************************************************)
EXTENDS Integers, Sequences, FiniteSets, TLC

\* ---- bounds of the model ----
NumProcs == 2      \* concurrent goroutines
MaxCalls == 2      \* calls the goroutines issue in total on the server
ClockCalls == 3    \* calls the goroutines issue in total on a bare clock
EventsCalls == 3   \* requests the goroutines send in total to /event, /message, /events
ReceiveCalls == 2  \* requests the goroutines send in total to /message
FairCalls == 2     \* calls the goroutines issue in total under fair scheduling
FrameCalls == 3    \* requests the goroutines send in total to the four endpoints
TicksPerGoroutine == 2  \* Tick calls of each goroutine when all of them only tick
SeqCalls == 5      \* calls of the one goroutine that calls the server in sequence
IntBits == 5       \* width of the modelled int64

Procs == 1..NumProcs
None == 0

TwoTo(n) == 2 ^ n
MaxInt64 == TwoTo(IntBits - 1) - 1
MinInt64 == 0 - TwoTo(IntBits - 1)
Int64 == MinInt64..MaxInt64

\* Go's signed integer overflow wraps around at the width of the type.
Wrap(x) == ((x - MinInt64) % TwoTo(IntBits)) + MinInt64

\* receivedTimestamp values the callers send: a negative one, the value of a
\* fresh counter, a small positive one, and the two largest values of the type.
Received == {0 - 1, 0, 5, MaxInt64 - 1, MaxInt64}

\* receivedTimestamp values of the sequential caller: those of the tests
\* (5, 4, 3) and the largest value of the type.
SeqReceived == {3, 4, 5, MaxInt64}

\* The mathematical maximum, used to state the claims.
Max(a, b) == IF a >= b THEN a ELSE b

VARIABLES
  timestamp,   \* LamportClock.timestamp
  clockW,      \* lc.mutex: the goroutine holding the write lock, or None
  clockR,      \* lc.mutex: the goroutines holding a read lock
  events,      \* Server.events
  srvW,        \* s.mutex: the goroutine holding the write lock, or None
  srvR,        \* s.mutex: the goroutines holding a read lock
  pc,          \* per goroutine: the statement it is about to run
  op,          \* per goroutine: the function it was asked to run
  received,    \* per goroutine: receivedTimestamp of its Update
  id,          \* per goroutine: the id argument of its logEvent
  ret,         \* per goroutine: the value its last clock call returned
  event,       \* per goroutine: the Event its record call built and returns
  calls,       \* per goroutine: calls it may still issue
  total,       \* calls the goroutines may still issue in total
  pre,         \* history: the counter when the goroutine entered its critical section
  invoked,     \* history: how many clock calls had returned when this call was invoked
  hist,        \* history: the clock calls that have returned, in order of return
  made,        \* history: how many record calls (logEvent, processMessage) were made
  message,     \* per goroutine: the message argument of its record call
  req,         \* per goroutine: the HTTP request its handler serves
  status,      \* per goroutine: the HTTP status its handler answered, 0 if none
  snap,        \* per goroutine: the local slice `events` of handleGetEvents
  resp         \* per goroutine: the body handleGetEvents encoded

vars == <<timestamp, clockW, clockR, events, srvW, srvR, pc, op, received, id,
          ret, event, calls, total, pre, invoked, hist, made, message, req,
          status, snap, resp>>

clockVars == <<timestamp, clockW, clockR>>
logVars == <<events, srvW, srvR>>
httpVars == <<req, status, snap, resp>>

\* Strings that the program builds are sequences of pieces: literal pieces
\* and the characters of formatted numbers.
NoEvent == [ID |-> <<>>, Message |-> <<>>, Timestamp |-> 0]
NoRequest == [method |-> "", timestamp |-> <<>>, message |-> <<>>]
\* A Go slice: its own backing array (`elems`), or the array of s.events.
NoSlice == [shared |-> FALSE, elems |-> <<>>]
NoBody == [current_timestamp |-> 0, events |-> <<>>, event_count |-> 0]

\* NewLamportClock, NewServer: the counter at 0, an empty log, both locks free.
InitWith(budget, all) ==
  /\ timestamp = 0
  /\ clockW = None
  /\ clockR = {}
  /\ events = <<>>
  /\ srvW = None
  /\ srvR = {}
  /\ pc = [p \in Procs |-> "idle"]
  /\ op = [p \in Procs |-> "none"]
  /\ received = [p \in Procs |-> 0]
  /\ id = [p \in Procs |-> <<>>]
  /\ ret = [p \in Procs |-> 0]
  /\ event = [p \in Procs |-> NoEvent]
  /\ calls = budget
  /\ total = all
  /\ pre = [p \in Procs |-> 0]
  /\ invoked = [p \in Procs |-> 0]
  /\ hist = <<>>
  /\ made = 0
  /\ message = [p \in Procs |-> <<>>]
  /\ req = [p \in Procs |-> NoRequest]
  /\ status = [p \in Procs |-> 0]
  /\ snap = [p \in Procs |-> NoSlice]
  /\ resp = [p \in Procs |-> NoBody]

Init == InitWith([p \in Procs |-> MaxCalls], MaxCalls)

\* ---- LamportClock ----

\* lc.timestamp++
Inc(x) == Wrap(x + 1)

\* if receivedTimestamp > lc.timestamp { lc.timestamp = receivedTimestamp }
Raise(ts, r) == IF r > ts THEN r ELSE ts

\* A Lock that excludes nobody, as if the critical section took no lock.
CanLockNoExclusion(w, r) == TRUE

\* An RLock that does not wait for the writer.
CanRLockNoExclusion(w) == TRUE

\* sync.RWMutex: Lock waits until no writer and no reader holds the lock,
\* RLock until no writer holds it.
CanLock(w, r) == w = None /\ r = {}
CanRLock(w) == w = None

\* Where a clock call continues once it has returned to its caller.
AfterClock(o) ==
  CASE o \in {"logEvent", "handleCreateEvent"} -> "logEvent_Lock"
    [] o \in {"processMessage", "handleReceiveMessage"} -> "processMessage_Lock"
    [] OTHER -> "idle"

\* Where GetTime continues once it has returned to its caller.
AfterGetTime(o) ==
  CASE o = "handleGetEvents" -> "handleGetEvents_Encode"
    [] o = "handleGetTime" -> "handleGetTime_Encode"
    [] OTHER -> "idle"

\* Where logEvent and processMessage continue once they have returned.
AfterRecord(o) ==
  CASE o = "handleCreateEvent" -> "handleCreateEvent_Encode"
    [] o = "handleReceiveMessage" -> "handleReceiveMessage_Encode"
    [] OTHER -> "idle"

\* The functions that record an event, called directly or through a handler.
RecordOps == {"logEvent", "processMessage", "handleCreateEvent", "handleReceiveMessage"}

\* A goroutine starts a call of `o`, whose first statement is `first`.
Call(p, o, first) ==
  /\ pc[p] = "idle"
  /\ calls[p] > 0
  /\ total > 0
  /\ calls' = [calls EXCEPT ![p] = @ - 1]
  /\ total' = total - 1
  /\ op' = [op EXCEPT ![p] = o]
  /\ pc' = [pc EXCEPT ![p] = first]
  /\ invoked' = [invoked EXCEPT ![p] = Len(hist)]
  /\ made' = IF o \in RecordOps /\ first /= "idle" THEN made + 1 ELSE made

CallTick(p) ==
  /\ Call(p, "Tick", "Tick_Lock")
  /\ UNCHANGED <<clockVars, logVars, httpVars, received, id, message, ret,
                 event, pre, hist>>

CallUpdate(p, r) ==
  /\ Call(p, "Update", "Update_Lock")
  /\ received' = [received EXCEPT ![p] = r]
  /\ UNCHANGED <<clockVars, logVars, httpVars, id, message, ret, event, pre,
                 hist>>

CallGetTime(p) ==
  /\ Call(p, "GetTime", "GetTime_RLock")
  /\ UNCHANGED <<clockVars, logVars, httpVars, received, id, message, ret,
                 event, pre, hist>>

\* Tick: lc.mutex.Lock()
TickLock(p) ==
  /\ pc[p] = "Tick_Lock"
  /\ CanLock(clockW, clockR)
  /\ clockW' = p
  /\ pre' = [pre EXCEPT ![p] = timestamp]
  /\ pc' = [pc EXCEPT ![p] = "Tick_Inc"]
  /\ UNCHANGED <<timestamp, clockR, logVars, op, received, id, ret, event,
                 calls, total, made, message, httpVars, invoked, hist>>

\* Tick: lc.timestamp++
TickInc(p) ==
  /\ pc[p] = "Tick_Inc"
  /\ timestamp' = Inc(timestamp)
  /\ pc' = [pc EXCEPT ![p] = "Tick_Return"]
  /\ UNCHANGED <<clockW, clockR, logVars, op, received, id, ret, event,
                 calls, total, made, message, httpVars, pre, invoked, hist>>

\* The record of a clock call that returns `v` to goroutine p.
Returned(p, kind, r, v) ==
  [op |-> kind, received |-> r, ret |-> v, invoked |-> invoked[p]]

\* Tick: return lc.timestamp, then the deferred lc.mutex.Unlock()
TickReturn(p) ==
  /\ pc[p] = "Tick_Return"
  /\ ret' = [ret EXCEPT ![p] = timestamp]
  /\ clockW' = None
  /\ hist' = Append(hist, Returned(p, "Tick", 0, timestamp))
  /\ pc' = [pc EXCEPT ![p] = AfterClock(op[p])]
  /\ UNCHANGED <<timestamp, clockR, logVars, op, received, id, event,
                 calls, total, made, message, httpVars, pre, invoked>>

\* Update: lc.mutex.Lock()
UpdateLock(p) ==
  /\ pc[p] = "Update_Lock"
  /\ CanLock(clockW, clockR)
  /\ clockW' = p
  /\ pre' = [pre EXCEPT ![p] = timestamp]
  /\ pc' = [pc EXCEPT ![p] = "Update_Raise"]
  /\ UNCHANGED <<timestamp, clockR, logVars, op, received, id, ret, event,
                 calls, total, made, message, httpVars, invoked, hist>>

\* Update: if receivedTimestamp > lc.timestamp { lc.timestamp = receivedTimestamp }
UpdateRaise(p) ==
  /\ pc[p] = "Update_Raise"
  /\ timestamp' = Raise(timestamp, received[p])
  /\ pc' = [pc EXCEPT ![p] = "Update_Inc"]
  /\ UNCHANGED <<clockW, clockR, logVars, op, received, id, ret, event,
                 calls, total, made, message, httpVars, pre, invoked, hist>>

\* Update: lc.timestamp++
UpdateInc(p) ==
  /\ pc[p] = "Update_Inc"
  /\ timestamp' = Inc(timestamp)
  /\ pc' = [pc EXCEPT ![p] = "Update_Return"]
  /\ UNCHANGED <<clockW, clockR, logVars, op, received, id, ret, event,
                 calls, total, made, message, httpVars, pre, invoked, hist>>

\* Update: return lc.timestamp, then the deferred lc.mutex.Unlock()
UpdateReturn(p) ==
  /\ pc[p] = "Update_Return"
  /\ ret' = [ret EXCEPT ![p] = timestamp]
  /\ clockW' = None
  /\ hist' = Append(hist, Returned(p, "Update", received[p], timestamp))
  /\ pc' = [pc EXCEPT ![p] = AfterClock(op[p])]
  /\ UNCHANGED <<timestamp, clockR, logVars, op, received, id, event,
                 calls, total, made, message, httpVars, pre, invoked>>

\* GetTime: lc.mutex.RLock()
GetTimeRLock(p) ==
  /\ pc[p] = "GetTime_RLock"
  /\ CanRLock(clockW)
  /\ clockR' = clockR \cup {p}
  /\ pc' = [pc EXCEPT ![p] = "GetTime_Return"]
  /\ UNCHANGED <<timestamp, clockW, logVars, op, received, id, ret, event,
                 calls, total, made, message, httpVars, pre, invoked, hist>>

\* A GetTime that advances the counter as Tick does before it returns it.
GetTimeReturnAdvancing(p) ==
  /\ pc[p] = "GetTime_Return"
  /\ timestamp' = Inc(timestamp)
  /\ ret' = [ret EXCEPT ![p] = timestamp']
  /\ clockR' = clockR \ {p}
  /\ pc' = [pc EXCEPT ![p] = AfterGetTime(op[p])]
  /\ UNCHANGED <<clockW, logVars, op, received, id, event,
                 calls, total, made, message, httpVars, pre, invoked, hist>>

\* GetTime: return lc.timestamp, then the deferred lc.mutex.RUnlock()
GetTimeReturn(p) ==
  /\ pc[p] = "GetTime_Return"
  /\ ret' = [ret EXCEPT ![p] = timestamp]
  /\ clockR' = clockR \ {p}
  /\ pc' = [pc EXCEPT ![p] = AfterGetTime(op[p])]
  /\ UNCHANGED <<timestamp, clockW, logVars, op, received, id, event,
                 calls, total, made, message, httpVars, pre, invoked, hist>>

TickSteps(p) == TickLock(p) \/ TickInc(p) \/ TickReturn(p)
UpdateSteps(p) == UpdateLock(p) \/ UpdateRaise(p) \/ UpdateInc(p) \/ UpdateReturn(p)
GetTimeSteps(p) == GetTimeRLock(p) \/ GetTimeReturn(p)

\* ---- Server ----

\* The id a test or the handler passes to logEvent.
EventIds == {<<"test-1">>}

DigitChars == <<"0", "1", "2", "3", "4", "5", "6", "7", "8", "9">>
IsDigit(c) == \E d \in 1..10 : DigitChars[d] = c
DigitValue(c) == (CHOOSE d \in 1..10 : DigitChars[d] = c) - 1

\* The decimal digits of a natural number, most significant first.
RECURSIVE FormatNat(_)
FormatNat(n) ==
  IF n < 10 THEN <<DigitChars[n + 1]>>
  ELSE FormatNat(n \div 10) \o <<DigitChars[(n % 10) + 1]>>

\* The verb %d of fmt.Sprintf: a minus sign for a negative number, then its digits.
FormatInt(n) == IF n < 0 THEN <<"-">> \o FormatNat(0 - n) ELSE FormatNat(n)

\* fmt.Sprintf("msg-%d", newTimestamp)
MsgId(ts) == <<"msg-">> \o FormatInt(ts)

CallLogEvent(p, i) ==
  /\ Call(p, "logEvent", "Tick_Lock")
  /\ id' = [id EXCEPT ![p] = i]
  /\ message' = [message EXCEPT ![p] = <<"message">>]
  /\ UNCHANGED <<clockVars, logVars, httpVars, received, ret, event, pre, hist>>

CallProcessMessage(p, r) ==
  /\ Call(p, "processMessage", "Update_Lock")
  /\ received' = [received EXCEPT ![p] = r]
  /\ message' = [message EXCEPT ![p] = <<"message">>]
  /\ UNCHANGED <<clockVars, logVars, httpVars, id, ret, event, pre, hist>>

\* logEvent: event := Event{ID: id, Message: message, Timestamp: timestamp},
\* then s.mutex.Lock()
LogEventLock(p) ==
  /\ pc[p] = "logEvent_Lock"
  /\ CanLock(srvW, srvR)
  /\ event' = [event EXCEPT ![p] =
                 [ID |-> id[p], Message |-> message[p], Timestamp |-> ret[p]]]
  /\ srvW' = p
  /\ pc' = [pc EXCEPT ![p] = "logEvent_Append"]
  /\ UNCHANGED <<clockVars, events, srvR, op, received, id, ret,
                 calls, total, made, message, httpVars, pre, invoked, hist>>

\* A logEvent that stores the new event in place of the log, as if it appended
\* to an empty slice.
LogEventAppendOverwriting(p) ==
  /\ pc[p] = "logEvent_Append"
  /\ events' = <<event[p]>>
  /\ pc' = [pc EXCEPT ![p] = "logEvent_Unlock"]
  /\ UNCHANGED <<clockVars, srvW, srvR, op, received, id, ret, event,
                 calls, total, made, message, httpVars, pre, invoked, hist>>

\* logEvent: s.events = append(s.events, event)
LogEventAppend(p) ==
  /\ pc[p] = "logEvent_Append"
  /\ events' = Append(events, event[p])
  /\ pc' = [pc EXCEPT ![p] = "logEvent_Unlock"]
  /\ UNCHANGED <<clockVars, srvW, srvR, op, received, id, ret, event,
                 calls, total, made, message, httpVars, pre, invoked, hist>>

\* A logEvent that returns without s.mutex.Unlock().
LogEventUnlockKeeping(p) ==
  /\ pc[p] = "logEvent_Unlock"
  /\ srvW' = srvW
  /\ pc' = [pc EXCEPT ![p] = AfterRecord(op[p])]
  /\ UNCHANGED <<clockVars, events, srvR, op, received, id, ret, event,
                 calls, total, made, message, httpVars, pre, invoked, hist>>

\* logEvent: s.mutex.Unlock(), then return event
LogEventUnlock(p) ==
  /\ pc[p] = "logEvent_Unlock"
  /\ srvW' = None
  /\ pc' = [pc EXCEPT ![p] = AfterRecord(op[p])]
  /\ UNCHANGED <<clockVars, events, srvR, op, received, id, ret, event,
                 calls, total, made, message, httpVars, pre, invoked, hist>>

\* processMessage: event := Event{ID: "msg-<newTimestamp>",
\* Message: "Processed: <message>", Timestamp: newTimestamp}, then s.mutex.Lock()
ProcessMessageLock(p) ==
  /\ pc[p] = "processMessage_Lock"
  /\ CanLock(srvW, srvR)
  /\ event' = [event EXCEPT ![p] =
                 [ID |-> MsgId(ret[p]), Message |-> <<"Processed: ">> \o message[p],
                  Timestamp |-> ret[p]]]
  /\ srvW' = p
  /\ pc' = [pc EXCEPT ![p] = "processMessage_Append"]
  /\ UNCHANGED <<clockVars, events, srvR, op, received, id, ret,
                 calls, total, made, message, httpVars, pre, invoked, hist>>

\* processMessage: s.events = append(s.events, event)
ProcessMessageAppend(p) ==
  /\ pc[p] = "processMessage_Append"
  /\ events' = Append(events, event[p])
  /\ pc' = [pc EXCEPT ![p] = "processMessage_Unlock"]
  /\ UNCHANGED <<clockVars, srvW, srvR, op, received, id, ret, event,
                 calls, total, made, message, httpVars, pre, invoked, hist>>

\* processMessage: s.mutex.Unlock(), then return event
ProcessMessageUnlock(p) ==
  /\ pc[p] = "processMessage_Unlock"
  /\ srvW' = None
  /\ pc' = [pc EXCEPT ![p] = AfterRecord(op[p])]
  /\ UNCHANGED <<clockVars, events, srvR, op, received, id, ret, event,
                 calls, total, made, message, httpVars, pre, invoked, hist>>

LogEventSteps(p) == LogEventLock(p) \/ LogEventAppend(p) \/ LogEventUnlock(p)
ProcessMessageSteps(p) ==
  ProcessMessageLock(p) \/ ProcessMessageAppend(p) \/ ProcessMessageUnlock(p)

\* ---- HTTP handlers ----

\* strconv.ParseInt(s, 10, 64): an optional sign and at least one digit, all
\* digits, the value within the range of the type; otherwise an error.
RECURSIVE Magnitude(_)
Magnitude(s) ==
  IF s = <<>> THEN 0
  ELSE Magnitude(SubSeq(s, 1, Len(s) - 1)) * 10 + DigitValue(s[Len(s)])

ParseInt(s) ==
  LET signed == s /= <<>> /\ s[1] \in {"+", "-"}
      body == IF signed THEN Tail(s) ELSE s
      syntax == body /= <<>> /\ \A i \in 1..Len(body) : IsDigit(body[i])
      value == IF s[1] = "-" THEN 0 - Magnitude(body) ELSE Magnitude(body)
  IN  IF ~ syntax THEN [err |-> TRUE, val |-> 0]
      ELSE IF value > MaxInt64 THEN [err |-> TRUE, val |-> MaxInt64]
      ELSE IF value < MinInt64 THEN [err |-> TRUE, val |-> MinInt64]
      ELSE [err |-> FALSE, val |-> value]

\* The timestamp parameters the clients send: none, a word, 5, the two
\* largest values of the type, and the first value beyond it.
TimestampParams ==
  {<<>>, <<"x">>, FormatInt(5), FormatInt(MaxInt64 - 1), FormatInt(MaxInt64),
   FormatInt(MaxInt64 + 1)}

\* The message parameters the clients send: none, or a text.
MessageParams == {<<>>, <<"message">>}

\* time.Now().UnixNano() when handleCreateEvent names its event.
UnixNanos == {1}

\* A handleCreateEvent that serves every method.
CreateEventStatusAnyMethod(method) == 0

\* handleCreateEvent: the status it answers at once, 0 if it goes on.
CreateEventStatus(method) == IF method /= "POST" THEN 405 ELSE 0

\* handleCreateEvent up to its call of logEvent
CallHandleCreateEvent(p, method, msg, nano) ==
  LET st == CreateEventStatus(method) IN
  /\ Call(p, "handleCreateEvent", IF st = 0 THEN "Tick_Lock" ELSE "idle")
  /\ req' = [req EXCEPT ![p] = [method |-> method, timestamp |-> <<>>, message |-> msg]]
  /\ status' = [status EXCEPT ![p] = st]
  /\ IF st = 0
     THEN /\ message' = [message EXCEPT ![p] =
                           IF msg = <<>> THEN <<"Local event">> ELSE msg]
          /\ id' = [id EXCEPT ![p] = <<"event-">> \o FormatInt(nano)]
     ELSE UNCHANGED <<message, id>>
  /\ UNCHANGED <<clockVars, logVars, received, ret, event, pre, hist, snap, resp>>

\* handleCreateEvent: json.NewEncoder(w).Encode(event)
HandleCreateEventEncode(p) ==
  /\ pc[p] = "handleCreateEvent_Encode"
  /\ status' = [status EXCEPT ![p] = 200]
  /\ pc' = [pc EXCEPT ![p] = "idle"]
  /\ UNCHANGED <<clockVars, logVars, op, received, id, ret, event,
                 calls, total, made, message, req, snap, resp, pre, invoked, hist>>

\* A handleReceiveMessage that does not look at the message parameter.
ReceiveMessageStatusNoMessageCheck(method, ts, msg) ==
  IF method /= "POST" THEN 405
  ELSE IF ts = <<>> THEN 400
  ELSE IF ParseInt(ts).err THEN 400
  ELSE 0

\* handleReceiveMessage: the status it answers at once, 0 if it goes on.
ReceiveMessageStatus(method, ts, msg) ==
  IF method /= "POST" THEN 405
  ELSE IF ts = <<>> \/ msg = <<>> THEN 400
  ELSE IF ParseInt(ts).err THEN 400
  ELSE 0

\* handleReceiveMessage up to its call of processMessage
CallHandleReceiveMessage(p, method, ts, msg) ==
  LET st == ReceiveMessageStatus(method, ts, msg) IN
  /\ Call(p, "handleReceiveMessage", IF st = 0 THEN "Update_Lock" ELSE "idle")
  /\ req' = [req EXCEPT ![p] = [method |-> method, timestamp |-> ts, message |-> msg]]
  /\ status' = [status EXCEPT ![p] = st]
  /\ IF st = 0
     THEN /\ received' = [received EXCEPT ![p] = ParseInt(ts).val]
          /\ message' = [message EXCEPT ![p] = msg]
     ELSE UNCHANGED <<received, message>>
  /\ UNCHANGED <<clockVars, logVars, id, ret, event, pre, hist, snap, resp>>

\* handleReceiveMessage: json.NewEncoder(w).Encode(event)
HandleReceiveMessageEncode(p) ==
  /\ pc[p] = "handleReceiveMessage_Encode"
  /\ status' = [status EXCEPT ![p] = 200]
  /\ pc' = [pc EXCEPT ![p] = "idle"]
  /\ UNCHANGED <<clockVars, logVars, op, received, id, ret, event,
                 calls, total, made, message, req, snap, resp, pre, invoked, hist>>

\* handleGetEvents: the status it answers at once, 0 if it goes on.
GetEventsStatus(method) == IF method /= "GET" THEN 405 ELSE 0

\* handleGetEvents up to s.mutex.RLock()
CallHandleGetEvents(p, method) ==
  LET st == GetEventsStatus(method) IN
  /\ Call(p, "handleGetEvents", IF st = 0 THEN "handleGetEvents_RLock" ELSE "idle")
  /\ req' = [req EXCEPT ![p] = [method |-> method, timestamp |-> <<>>, message |-> <<>>]]
  /\ status' = [status EXCEPT ![p] = st]
  /\ UNCHANGED <<clockVars, logVars, received, id, message, ret, event, pre,
                 hist, snap, resp>>

\* handleGetEvents: s.mutex.RLock()
HandleGetEventsRLock(p) ==
  /\ pc[p] = "handleGetEvents_RLock"
  /\ CanRLock(srvW)
  /\ srvR' = srvR \cup {p}
  /\ pc' = [pc EXCEPT ![p] = "handleGetEvents_Copy"]
  /\ UNCHANGED <<clockVars, events, srvW, op, received, id, ret, event,
                 calls, total, made, message, httpVars, pre, invoked, hist>>

\* The elements read through a slice.
SliceElems(sl) == IF sl.shared THEN events ELSE sl.elems

\* A handleGetEvents that keeps s.events itself instead of copying it.
HandleGetEventsCopyAliasing(p) ==
  /\ pc[p] = "handleGetEvents_Copy"
  /\ snap' = [snap EXCEPT ![p] = [shared |-> TRUE, elems |-> <<>>]]
  /\ pc' = [pc EXCEPT ![p] = "handleGetEvents_RUnlock"]
  /\ UNCHANGED <<clockVars, logVars, op, received, id, ret, event,
                 calls, total, made, message, req, status, resp, pre, invoked, hist>>

\* handleGetEvents: events := make([]Event, len(s.events)); copy(events, s.events)
HandleGetEventsCopy(p) ==
  /\ pc[p] = "handleGetEvents_Copy"
  /\ snap' = [snap EXCEPT ![p] = [shared |-> FALSE, elems |-> events]]
  /\ pc' = [pc EXCEPT ![p] = "handleGetEvents_RUnlock"]
  /\ UNCHANGED <<clockVars, logVars, op, received, id, ret, event,
                 calls, total, made, message, req, status, resp, pre, invoked, hist>>

\* handleGetEvents: s.mutex.RUnlock(), then the call of s.clock.GetTime()
HandleGetEventsRUnlock(p) ==
  /\ pc[p] = "handleGetEvents_RUnlock"
  /\ srvR' = srvR \ {p}
  /\ pc' = [pc EXCEPT ![p] = "GetTime_RLock"]
  /\ UNCHANGED <<clockVars, events, srvW, op, received, id, ret, event,
                 calls, total, made, message, httpVars, pre, invoked, hist>>

\* handleGetEvents: Encode of current_timestamp, events and event_count
HandleGetEventsEncode(p) ==
  /\ pc[p] = "handleGetEvents_Encode"
  /\ resp' = [resp EXCEPT ![p] =
                [current_timestamp |-> ret[p],
                 events |-> SliceElems(snap[p]),
                 event_count |-> Len(SliceElems(snap[p]))]]
  /\ status' = [status EXCEPT ![p] = 200]
  /\ pc' = [pc EXCEPT ![p] = "idle"]
  /\ UNCHANGED <<clockVars, logVars, op, received, id, ret, event,
                 calls, total, made, message, req, snap, pre, invoked, hist>>

HandleGetEventsSteps(p) ==
  \/ HandleGetEventsRLock(p)
  \/ HandleGetEventsCopy(p)
  \/ HandleGetEventsRUnlock(p)
  \/ HandleGetEventsEncode(p)

\* handleGetTime: the status it answers at once, 0 if it goes on.
GetTimeStatus(method) == IF method /= "GET" THEN 405 ELSE 0

\* handleGetTime up to its call of s.clock.GetTime()
CallHandleGetTime(p, method) ==
  LET st == GetTimeStatus(method) IN
  /\ Call(p, "handleGetTime", IF st = 0 THEN "GetTime_RLock" ELSE "idle")
  /\ req' = [req EXCEPT ![p] = [method |-> method, timestamp |-> <<>>, message |-> <<>>]]
  /\ status' = [status EXCEPT ![p] = st]
  /\ UNCHANGED <<clockVars, logVars, received, id, message, ret, event, pre,
                 hist, snap, resp>>

\* handleGetTime: Encode of lamport_timestamp (and the wall time)
HandleGetTimeEncode(p) ==
  /\ pc[p] = "handleGetTime_Encode"
  /\ resp' = [resp EXCEPT ![p] = [lamport_timestamp |-> ret[p]]]
  /\ status' = [status EXCEPT ![p] = 200]
  /\ pc' = [pc EXCEPT ![p] = "idle"]
  /\ UNCHANGED <<clockVars, logVars, op, received, id, ret, event,
                 calls, total, made, message, req, snap, pre, invoked, hist>>

\* ---- the server: concurrent record calls and reads of the clock ----
Next ==
  \E p \in Procs :
    \/ \E i \in EventIds : CallLogEvent(p, i)
    \/ \E r \in Received : CallProcessMessage(p, r)
    \/ CallGetTime(p)
    \/ TickSteps(p)
    \/ UpdateSteps(p)
    \/ GetTimeSteps(p)
    \/ LogEventSteps(p)
    \/ ProcessMessageSteps(p)

Spec == Init /\ [][Next]_vars

\* ---- the clock alone, called by concurrent goroutines ----
NextClock ==
  \E p \in Procs :
    \/ CallTick(p)
    \/ \E r \in Received : CallUpdate(p, r)
    \/ CallGetTime(p)
    \/ TickSteps(p)
    \/ UpdateSteps(p)
    \/ GetTimeSteps(p)

InitClock == InitWith([p \in Procs |-> ClockCalls], ClockCalls)

SpecClock == InitClock /\ [][NextClock]_vars

\* ---- every goroutine issues TicksPerGoroutine Tick calls and nothing else ----
InitTicks ==
  InitWith([p \in Procs |-> TicksPerGoroutine], NumProcs * TicksPerGoroutine)

NextTicks == \E p \in Procs : CallTick(p) \/ TickSteps(p)

SpecTicks == InitTicks /\ [][NextTicks]_vars

\* ---- concurrent goroutines that only call logEvent ----
NextLocal ==
  \E p \in Procs :
    \/ \E i \in EventIds : CallLogEvent(p, i)
    \/ TickSteps(p)
    \/ LogEventSteps(p)

SpecLocal == Init /\ [][NextLocal]_vars

\* ---- one goroutine calls the server, each call after the previous returned ----
InitSeq == InitWith([p \in Procs |-> IF p = 1 THEN SeqCalls ELSE 0], SeqCalls)

NextSeq ==
  \E p \in Procs :
    \/ \E i \in EventIds : CallLogEvent(p, i)
    \/ \E r \in SeqReceived : CallProcessMessage(p, r)
    \/ CallGetTime(p)
    \/ TickSteps(p)
    \/ UpdateSteps(p)
    \/ GetTimeSteps(p)
    \/ LogEventSteps(p)
    \/ ProcessMessageSteps(p)

SpecSeq == InitSeq /\ [][NextSeq]_vars

\* ---- clients of /event, /message and /events ----
InitEvents == InitWith([p \in Procs |-> EventsCalls], EventsCalls)

NextEvents ==
  \E p \in Procs :
    \/ \E n \in UnixNanos : CallHandleCreateEvent(p, "POST", <<"message">>, n)
    \/ \E ts \in {FormatInt(5), FormatInt(MaxInt64 - 1)} :
         CallHandleReceiveMessage(p, "POST", ts, <<"message">>)
    \/ CallHandleGetEvents(p, "GET")
    \/ TickSteps(p)
    \/ UpdateSteps(p)
    \/ GetTimeSteps(p)
    \/ LogEventSteps(p)
    \/ ProcessMessageSteps(p)
    \/ HandleGetEventsSteps(p)
    \/ HandleCreateEventEncode(p)
    \/ HandleReceiveMessageEncode(p)

SpecEvents == InitEvents /\ [][NextEvents]_vars

\* ---- clients of /message, with well-formed and malformed requests ----
InitReceive == InitWith([p \in Procs |-> ReceiveCalls], ReceiveCalls)

NextReceive ==
  \E p \in Procs :
    \/ \E m \in {"POST", "GET"}, ts \in TimestampParams, msg \in MessageParams :
         CallHandleReceiveMessage(p, m, ts, msg)
    \/ UpdateSteps(p)
    \/ ProcessMessageSteps(p)
    \/ HandleReceiveMessageEncode(p)

SpecReceive == InitReceive /\ [][NextReceive]_vars

\* ---- all six operations, called concurrently, scheduled fairly ----
InitFair == InitWith([p \in Procs |-> FairCalls], FairCalls)

\* The steps of a goroutine inside a call.
Progress(p) ==
  \/ TickSteps(p)
  \/ UpdateSteps(p)
  \/ GetTimeSteps(p)
  \/ LogEventSteps(p)
  \/ ProcessMessageSteps(p)
  \/ HandleGetEventsSteps(p)

NextFair ==
  \E p \in Procs :
    \/ CallTick(p)
    \/ CallUpdate(p, 5)
    \/ CallGetTime(p)
    \/ \E i \in EventIds : CallLogEvent(p, i)
    \/ CallProcessMessage(p, 5)
    \/ CallHandleGetEvents(p, "GET")
    \/ Progress(p)

\* The Go scheduler runs every runnable goroutine again, and a goroutine
\* blocked on a mutex is runnable once the mutex is free.
SpecFair ==
  InitFair /\ [][NextFair]_vars /\ \A p \in Procs : WF_vars(Progress(p))

\* ---- clients of all four endpoints, with either method ----
InitFrame == InitWith([p \in Procs |-> FrameCalls], FrameCalls)

Methods == {"GET", "POST"}

NextFrame ==
  \E p \in Procs :
    \/ \E m \in Methods, n \in UnixNanos : CallHandleCreateEvent(p, m, <<"message">>, n)
    \/ \E m \in Methods : CallHandleReceiveMessage(p, m, FormatInt(5), <<"message">>)
    \/ \E m \in Methods : CallHandleGetEvents(p, m)
    \/ \E m \in Methods : CallHandleGetTime(p, m)
    \/ TickSteps(p)
    \/ UpdateSteps(p)
    \/ GetTimeSteps(p)
    \/ LogEventSteps(p)
    \/ ProcessMessageSteps(p)
    \/ HandleGetEventsSteps(p)
    \/ HandleCreateEventEncode(p)
    \/ HandleReceiveMessageEncode(p)
    \/ HandleGetTimeEncode(p)

SpecFrame == InitFrame /\ [][NextFrame]_vars

\* ======================= properties =======================

Idle(p) == pc[p] = "idle"
AllReturned == \A p \in Procs : Idle(p)
\* The value the most recent Tick or Update to return left in the counter.
LastValue == IF hist = <<>> THEN 0 ELSE hist[Len(hist)].ret
Rets == [i \in 1..Len(hist) |-> hist[i].ret]
Times == [i \in 1..Len(events) |-> events[i].Timestamp]
StrictlyIncreasing(q) == \A i, j \in 1..Len(q) : i < j => q[i] < q[j]
Distinct(q) == \A i, j \in 1..Len(q) : i /= j => q[i] /= q[j]

\* C1: an Update(r) that runs when the counter is p returns max(p, r) + 1 and
\* leaves the counter at the value it returns.
C1_UpdateReturnsMaxPlusOne ==
  \A p \in Procs :
    /\ pc[p] = "Update_Return" => timestamp = Max(pre[p], received[p]) + 1
    /\ Idle(p) /\ op[p] = "Update" => ret[p] = Max(pre[p], received[p]) + 1

\* C2: a new clock is at 0, and a Tick that runs when the counter is p returns
\* p + 1 and leaves the counter at p + 1.
C2_TickReturnsPrePlusOne ==
  /\ hist = <<>> /\ clockW = None => timestamp = 0
  /\ \A p \in Procs :
       /\ pc[p] = "Tick_Return" => timestamp = pre[p] + 1
       /\ Idle(p) /\ op[p] = "Tick" => ret[p] = pre[p] + 1

\* C3: no step of any goroutine decreases the counter, and when a Tick or an
\* Update is about to return the counter is strictly above what it was when
\* that call entered its critical section.
C3_CounterStrictlyIncreases ==
  [][/\ timestamp' >= timestamp
     /\ \A p \in Procs :
          pc'[p] \in {"Tick_Return", "Update_Return"} => timestamp' > pre'[p]]_vars

\* C4: for a received value r >= 0, Update(r) returns a value strictly above r
\* and strictly above the counter it found.
C4_UpdateExceedsReceived ==
  \A p \in Procs :
    received[p] >= 0 =>
      /\ pc[p] = "Update_Return" =>
           timestamp > received[p] /\ timestamp > pre[p]
      /\ Idle(p) /\ op[p] = "Update" =>
           ret[p] > received[p] /\ ret[p] > pre[p]

\* C5: when NumProcs goroutines each issue TicksPerGoroutine Tick calls on a
\* fresh clock, the returned values are pairwise distinct and positive, and
\* once all calls have returned the counter is NumProcs * TicksPerGoroutine.
C5_ConcurrentTicksUnique ==
  /\ Distinct(Rets)
  /\ \A i \in 1..Len(hist) : hist[i].ret > 0
  /\ AllReturned /\ total = 0 =>
       /\ Len(hist) = NumProcs * TicksPerGoroutine
       /\ timestamp = NumProcs * TicksPerGoroutine

\* C5 witness: all the Tick calls have returned, the goroutines interleaved.
C5_Witness ==
  /\ AllReturned
  /\ total = 0
  /\ Len(hist) = NumProcs * TicksPerGoroutine
  /\ \E i \in 1..Len(hist) - 1 : hist[i + 1].invoked < i

\* C6: no two Tick or Update calls on one clock return the same value.
C6_ReturnsDistinct == Distinct(Rets)

\* C7: a call invoked after another call returned returns a strictly greater
\* value, and once all calls have returned the counter is the value the last
\* call to return returned, which is the greatest value returned.
C7_HappensBeforeMonotonic ==
  /\ \A j \in 1..Len(hist) :
       \A i \in 1..hist[j].invoked : hist[i].ret < hist[j].ret
  /\ AllReturned /\ hist /= <<>> =>
       /\ timestamp = LastValue
       /\ \A i \in 1..Len(hist) : hist[i].ret <= timestamp

\* C8: the Timestamp values of the log, read in append order, are strictly
\* increasing, whatever the interleaving of the record calls.
C8_LogStrictlyIncreasing == StrictlyIncreasing(Times)

\* C9: when the record calls are issued one after another, each returned
\* event carries a time strictly above the previous call's, the log carries
\* exactly those times in order, and the counter ends at the last of them.
C9_SequentialRecords ==
  /\ StrictlyIncreasing(Rets)
  /\ AllReturned => Times = Rets /\ timestamp = LastValue
  /\ \A p \in Procs :
       Idle(p) /\ op[p] \in {"logEvent", "processMessage"} =>
         event[p].Timestamp = LastValue

\* The scenario of TestDistributedScenario: logEvent, logEvent,
\* processMessage(5), logEvent, processMessage(4) on a fresh server return the
\* times 1, 2, 6, 7, 8 and leave the counter at 8.
IsScenario ==
  /\ Len(hist) = 5
  /\ [i \in 1..5 |-> hist[i].op] = <<"Tick", "Tick", "Update", "Tick", "Update">>
  /\ hist[3].received = 5
  /\ hist[5].received = 4

ScenarioTimes ==
  IsScenario /\ AllReturned =>
    Rets = <<1, 2, 6, 7, 8>> /\ Times = <<1, 2, 6, 7, 8>> /\ timestamp = 8

\* C10: GetTime never changes the counter, and the value it returns is the
\* value the most recent Tick or Update to return left there (0 if none), so
\* that GetTime calls with no Tick or Update between them return the same value.
C10_GetTimeReadsOnly ==
  [][\A p \in Procs :
       /\ pc[p] = "GetTime_RLock" /\ pc'[p] = "GetTime_Return" =>
            timestamp' = timestamp
       /\ pc[p] = "GetTime_Return" /\ pc'[p] = "idle" =>
            timestamp' = timestamp /\ ret'[p] = LastValue]_vars

\* C10 witness: after a Tick or Update returned, two goroutines have each
\* read the clock and got the value that call left.
C10_Witness ==
  \E p, q \in Procs :
    /\ p /= q
    /\ Idle(p) /\ op[p] = "GetTime"
    /\ Idle(q) /\ op[q] = "GetTime"
    /\ Len(hist) = 1
    /\ ret[p] = hist[1].ret
    /\ ret[q] = hist[1].ret

\* C15: an Update whose received value is negative, or at or below the
\* counter it finds, does not decrease the counter and returns that counter
\* plus 1, as a Tick would.
C15_LowUpdateActsAsTick ==
  \A p \in Procs :
    received[p] < 0 \/ received[p] <= pre[p] =>
      /\ pc[p] = "Update_Return" =>
           timestamp >= pre[p] /\ timestamp = pre[p] + 1
      /\ Idle(p) /\ op[p] = "Update" => ret[p] = pre[p] + 1

InCritical(p) ==
  pc[p] \in {"Tick_Inc", "Tick_Return", "Update_Raise", "Update_Inc", "Update_Return"}
Reading(p) == pc[p] = "GetTime_Return"

\* C16: at most one Tick or Update is inside its critical section, no GetTime
\* reads while one is, and every value a GetTime returned is 0 or a value some
\* Tick or Update returned.
C16_MutationsAtomic ==
  /\ Cardinality({p \in Procs : InCritical(p)}) <= 1
  /\ (\E p \in Procs : InCritical(p)) => ~ \E q \in Procs : Reading(q)
  /\ \A p \in Procs :
       Idle(p) /\ op[p] = "GetTime" =>
         ret[p] = 0 \/ \E i \in 1..Len(hist) : hist[i].ret = ret[p]

\* C16 witness: an Update has raised the counter to the received value and not
\* yet incremented it, while another goroutine waits to read the clock.
C16_Witness ==
  \E p, q \in Procs :
    /\ pc[p] = "Update_Inc"
    /\ received[p] > pre[p]
    /\ timestamp = received[p]
    /\ pc[q] = "GetTime_RLock"

IsAppend(old, new) ==
  Len(new) = Len(old) + 1 /\ SubSeq(new, 1, Len(old)) = old

\* C17: the log only ever changes by one entry being added at its end, the
\* entry of the record call that runs its append, and once all calls have
\* returned the log is as long as the number of record calls made.
C17_LogAppendOnly ==
  [][/\ events' = events \/ IsAppend(events, events')
     /\ \A p \in Procs :
          /\ pc[p] \in {"logEvent_Append", "processMessage_Append"}
          /\ pc'[p] /= pc[p]
          => events' = Append(events, event[p])
     /\ AllReturned' => Len(events') = made']_vars

\* C17 witness: two record calls have returned and the log holds two entries.
C17_Witness ==
  /\ AllReturned
  /\ made >= 2
  /\ Len(events) = made
  /\ \E p \in Procs : op[p] = "logEvent"

\* C18: a record call makes exactly one clock call, the event it appends and
\* returns carries the value that call returned, and the times in the log are
\* pairwise distinct and are exactly the values the clock calls returned.
C18_OneClockCallPerEvent ==
  /\ \A p \in Procs :
       Idle(p) /\ op[p] \in RecordOps =>
         /\ event[p].Timestamp = ret[p]
         /\ \E i \in 1..Len(events) : events[i] = event[p]
  /\ Distinct(Times)
  /\ AllReturned =>
       /\ Len(hist) = made
       /\ Len(events) = Len(hist)
       /\ {Times[i] : i \in 1..Len(events)} = {Rets[i] : i \in 1..Len(hist)}

FromProcessMessage(e) == e.Message /= <<>> /\ e.Message[1] = "Processed: "

\* C19: no two events that processMessage created carry the same id.
C19_MsgIdsDistinct ==
  \A i, j \in 1..Len(events) :
    /\ i /= j
    /\ FromProcessMessage(events[i])
    /\ FromProcessMessage(events[j])
    => events[i].ID /= events[j].ID

\* C14: the counter is non-negative in every reachable state and no increment
\* overflows: whenever Tick or Update is about to add one, the counter is
\* below the largest value of the type, for every received value of the type.
C14_CounterNonNegativeNoOverflow ==
  /\ timestamp >= 0
  /\ \A p \in Procs :
       pc[p] \in {"Tick_Inc", "Update_Inc"} => timestamp < MaxInt64

\* A timestamp parameter that is not a decimal number.
NonNumeric(s) ==
  LET body == IF s /= <<>> /\ s[1] \in {"+", "-"} THEN Tail(s) ELSE s
  IN  body = <<>> \/ \E i \in 1..Len(body) : ~ IsDigit(body[i])

\* A POST to /message without a timestamp, without a message, or with a
\* timestamp that is not a number.
Malformed(r) ==
  /\ r.method = "POST"
  /\ r.timestamp = <<>> \/ r.message = <<>> \/ NonNumeric(r.timestamp)

\* C12: a receive-message request with a missing timestamp, a missing message
\* or a non-numeric timestamp is answered 400 in the step that receives it,
\* without a call of processMessage: the counter, the log and the history of
\* clock calls are as before, and the goroutine is done.
C12_MalformedRejected ==
  [][\A p \in Procs :
       (calls'[p] /= calls[p] /\ op'[p] = "handleReceiveMessage" /\ Malformed(req'[p])) =>
         /\ status'[p] = 400
         /\ pc'[p] = "idle"
         /\ timestamp' = timestamp
         /\ events' = events
         /\ hist' = hist
         /\ made' = made]_vars

\* A request without a message was answered 400 after an earlier request had
\* moved the clock and written the log, and both are as that request left them.
C12_Witness ==
  \E p \in Procs :
    /\ Idle(p) /\ op[p] = "handleReceiveMessage"
    /\ req[p].method = "POST" /\ req[p].message = <<>> /\ req[p].timestamp = FormatInt(5)
    /\ status[p] = 400
    /\ AllReturned /\ made = 1 /\ Len(events) = 1 /\ timestamp = events[1].Timestamp

\* The goroutine is in handleGetEvents and has its copy of the log in hand.
HoldsSnapshot(p) ==
  /\ op[p] = "handleGetEvents"
  /\ pc[p] \in {"handleGetEvents_RUnlock", "GetTime_RLock", "GetTime_Return",
                "handleGetEvents_Encode"}
SnapshotElems(p) == SliceElems(snap[p])

\* C11: the sequence handleGetEvents takes is the log as it stands at the copy;
\* no step of any goroutine changes it while the handler holds it, the
\* response carries exactly it, and a response once written is changed only
\* by the next response of the same goroutine.
C11_SnapshotFrozen ==
  [][\A p \in Procs :
       /\ (pc[p] = "handleGetEvents_Copy" /\ pc'[p] /= pc[p]) =>
            SnapshotElems(p)' = events
       /\ (HoldsSnapshot(p) /\ HoldsSnapshot(p)') =>
            SnapshotElems(p)' = SnapshotElems(p)
       /\ (pc[p] = "handleGetEvents_Encode" /\ pc'[p] /= pc[p]) =>
            resp'[p].events = SnapshotElems(p)
       /\ pc[p] /= "handleGetEvents_Encode" => resp'[p] = resp[p]]_vars

\* A handler holds a snapshot of one event while a concurrent record call has
\* already written a second event to the log.
C11_Witness ==
  \E p \in Procs :
    /\ pc[p] = "handleGetEvents_Encode"
    /\ Len(SnapshotElems(p)) = 1
    /\ Len(events) = 2

IsPrefix(s, t) == Len(s) <= Len(t) /\ SubSeq(t, 1, Len(s)) = s

\* C20: every answer of handleGetEvents has a count equal to the length of
\* its event sequence, a sequence that is a prefix of the log in every later
\* state, and a current_timestamp at or above the Timestamp of each of its
\* events; every timestamp the clients send is below the largest of the type.
C20_SnapshotConsistent ==
  \A p \in Procs :
    (Idle(p) /\ op[p] = "handleGetEvents" /\ status[p] = 200) =>
      /\ resp[p].event_count = Len(resp[p].events)
      /\ IsPrefix(resp[p].events, events)
      /\ \A i \in 1..Len(resp[p].events) :
           resp[p].current_timestamp >= resp[p].events[i].Timestamp

HoldsClock(p) == clockW = p \/ p \in clockR
HoldsServer(p) == srvW = p \/ p \in srvR
WaitsForClock(p) == pc[p] \in {"Tick_Lock", "Update_Lock", "GetTime_RLock"}
WaitsForServer(p) ==
  pc[p] \in {"logEvent_Lock", "processMessage_Lock", "handleGetEvents_RLock"}

\* No goroutine waits for one of the two locks while it holds the other, nor
\* ever holds both.
NoHoldAndWait ==
  \A p \in Procs :
    /\ HoldsClock(p) => ~ WaitsForServer(p) /\ ~ HoldsServer(p)
    /\ HoldsServer(p) => ~ WaitsForClock(p)

\* While a call is under way, some goroutine inside a call can take a step.
NoDeadlock == AllReturned \/ ENABLED (\E p \in Procs : Progress(p))

\* C13: under fair scheduling every invoked Tick, Update, GetTime, logEvent,
\* processMessage and handleGetEvents returns, no reachable state is a
\* deadlock, and no goroutine waits for one lock while holding the other.
C13_NoOperationBlocks ==
  /\ [](NoHoldAndWait /\ NoDeadlock)
  /\ \A p \in Procs : (~ Idle(p)) ~> Idle(p)

\* A handleGetEvents waits for the server lock that a logEvent holds.
C13_Witness ==
  \E p, q \in Procs :
    /\ pc[p] = "handleGetEvents_RLock"
    /\ pc[q] = "logEvent_Append" /\ srvW = q

\* C21: every event in the log has a Timestamp of at least 1 and at most the
\* counter, and the log has no more events than the counter's value; every
\* timestamp the clients send is below the largest of the type.
C21_LogWithinCounter ==
  /\ \A i \in 1..Len(events) :
       events[i].Timestamp >= 1 /\ events[i].Timestamp <= timestamp
  /\ Len(events) <= timestamp

\* The method an endpoint does not serve.
WrongMethod(o, m) ==
  IF o \in {"handleCreateEvent", "handleReceiveMessage"} THEN m /= "POST" ELSE m /= "GET"

\* The goroutine's request is a listing, a time query, or one sent with the
\* wrong method.
ReadOnlyOrRejected(p) ==
  \/ op[p] \in {"handleGetEvents", "handleGetTime"}
  \/ /\ op[p] \in {"handleCreateEvent", "handleReceiveMessage"}
     /\ WrongMethod(op[p], req[p].method)

\* C22: no step of a GET /events, of a GET /time, or of a request sent with
\* the wrong method to any of the four endpoints changes the counter or the
\* log; a request with the wrong method is answered 405 in the step that
\* receives it and is over.
C22_ReadOnlyAndRejectedFrame ==
  [][\A p \in Procs :
       ((pc'[p] /= pc[p] \/ calls'[p] /= calls[p]) /\ ReadOnlyOrRejected(p)') =>
          /\ timestamp' = timestamp
          /\ events' = events
          /\ (calls'[p] /= calls[p] /\ WrongMethod(op'[p], req'[p].method)) =>
               status'[p] = 405 /\ pc'[p] = "idle"]_vars

\* After a local event was logged, a GET /event was answered 405 and a
\* GET /time was answered with the time of that event, the counter and the
\* log being what the local event left.
C22_Witness ==
  \E p, q \in Procs :
    /\ Idle(p) /\ op[p] = "handleCreateEvent" /\ req[p].method = "GET" /\ status[p] = 405
    /\ Idle(q) /\ op[q] = "handleGetTime" /\ status[q] = 200
    /\ resp[q] = [lamport_timestamp |-> 1]
    /\ timestamp = 1 /\ Len(events) = 1

====
